---------------------------- MODULE Spec2Model ----------------------------
(***************************************************************************)
(* Model of the metrics receiver (metrics_api.py): the in-memory store of  *)
(* the latest report per device, the ingest handler and the three query    *)
(* handlers (device list, device detail, dashboard).                       *)
(*                                                                         *)
(* Python dicts are functions whose DOMAIN is the set of keys present.     *)
(* Python strings are strings; a timestamp string is built and parsed as   *)
(* the code does it (isoformat + "Z" on write, replace + fromisoformat on  *)
(* read).  Time is counted in seconds on a grid of ClockStep seconds.      *)
(*                                                                         *)
(* Every handler that touches the store does so inside _metrics_lock, so   *)
(* each handler is one atomic action taken at the moment it holds the      *)
(* lock.  ingest_metrics reads the clock before it takes the lock: the     *)
(* value it read is an input of the action, not later than the clock.      *)
(* A query reads the clock once per entry while it holds the lock; the     *)
(* readings of one query are taken to be the same clock value.             *)
(* resp is the response of the handler that ran last, until respond hands  *)
(* it to the client; lastReport keeps, per device, the report as it was    *)
(* received (history, used only to state properties).                      *)
(*                                                                         *)
(* Spec runs the handlers one at a time.  SpecSeq does the same over fewer *)
(* reports, remembers the dashboard answered last and lets the clock       *)
(* advance fairly.  SpecConc runs the handlers on two threads step by      *)
(* step, with the lock.  SpecEntries starts from stores with entries the   *)
(* ingest handler never writes.  SpecClient runs the sending side          *)
(* (monitor_client.py): the collect-send-sleep loop of MonitorClient on    *)
(* its thread, started and stopped by main, scheduled fairly.              *)
(***************************************************************************)
EXTENDS Integers, Sequences, FiniteSets, TLC

VARIABLES _metrics_store, clock, resp, lastReport,
          _metrics_lock, threads, lastAcquired, lastDashboard, client

vars == <<_metrics_store, clock, resp, lastReport,
          _metrics_lock, threads, lastAcquired, lastDashboard, client>>

\* the lock and the request threads (used where handlers are interleaved),
\* the two history variables that go with them and with repeated dashboards,
\* and the monitor client (monitor_client.py)
aux == <<_metrics_lock, threads, lastAcquired, lastDashboard, client>>

\* the variables of the receiver
server == <<_metrics_store, clock, resp, lastReport,
            _metrics_lock, threads, lastAcquired, lastDashboard>>

----------------------------------------------------------------------------
(* Program constant and the bounds of the model *)

_MAX_AGE_SECONDS == 60

\* the clock advances in steps of ClockStep seconds, up to MaxClock
ClockStep == 60
MaxClock == 120

Times == {t \in 0..MaxClock : t % ClockStep = 0}

----------------------------------------------------------------------------
(* dict helpers *)

EmptyDict == [k \in {} |-> 0]

\* k in d
Has(d, k) == k \in DOMAIN d

\* d.get(k, default)
Get(d, k, default) == IF k \in DOMAIN d THEN d[k] ELSE default

\* d[k] = v
Put(d, k, v) == [x \in (DOMAIN d) \cup {k} |-> IF x = k THEN v ELSE d[x]]

----------------------------------------------------------------------------
(* Timestamps *)

\* datetime.isoformat() of the naive UTC time t
isoformat(t) == ToString(t)

\* variant: the stamp keeps the time within the period only (the date is
\* dropped), so that it starts again at the end of the period
utcnow_stamp_time_only(t) == isoformat(t % MaxClock) \o "Z"

\* datetime.utcnow().isoformat() + "Z"
utcnow_stamp(t) == isoformat(t) \o "Z"

\* s.replace('Z', '+00:00') on the strings that occur
replace_Z(s) ==
    IF \E t \in Times : s = isoformat(t) \o "Z"
    THEN isoformat(CHOOSE t \in Times : s = isoformat(t) \o "Z") \o "+00:00"
    ELSE s

\* datetime.fromisoformat(s): an aware datetime, a naive one, or ValueError
fromisoformat(s) ==
    IF \E t \in Times : s = isoformat(t) \o "+00:00"
    THEN [ok |-> TRUE, tzinfo |-> "utc",
          t |-> CHOOSE t \in Times : s = isoformat(t) \o "+00:00"]
    ELSE IF \E t \in Times : s = isoformat(t)
    THEN [ok |-> TRUE, tzinfo |-> "none",
          t |-> CHOOSE t \in Times : s = isoformat(t)]
    ELSE [ok |-> FALSE, tzinfo |-> "none", t |-> 0]

----------------------------------------------------------------------------
(* Requests *)

DeviceIds == {"", "d1", "d2"}

\* report bodies (everything but device_id) a producer may send
Bodies ==
    { EmptyDict,
      [hostname |-> "web-1", timestamp |-> "0Z", overall_status |-> "healthy",
       metrics |-> [cpu |-> [status |-> "healthy"],
                    disk |-> [status |-> "healthy"],
                    network |-> [status |-> "healthy"]]],
      [overall_status |-> "warning",
       metrics |-> [cpu |-> [status |-> "warning"],
                    disk |-> [status |-> "healthy"]]],
      [overall_status |-> "critical",
       metrics |-> [cpu |-> [status |-> "critical"],
                    network |-> [connections |-> 12]]],
      [overall_status |-> "unknown",
       metrics |-> [cpu |-> [usage_percent |-> 42],
                    disk |-> [status |-> "unknown"]]],
      [overall_status |-> "degraded",
       metrics |-> [cpu |-> [status |-> "degraded"],
                    disk |-> [status |-> "critical"]]],
      [overall_status |-> "offline", metrics |-> EmptyDict],
      [hostname |-> "web-2", received_at |-> "yesterday", is_stale |-> TRUE,
       age_seconds |-> 7, overall_status |-> "healthy"] }

Reports == {Put(b, "device_id", d) : b \in Bodies, d \in DeviceIds}

\* what request.get_json() returns: null, a JSON object, or another JSON value
Payloads ==
    {[kind |-> "null", obj |-> EmptyDict], [kind |-> "number", obj |-> EmptyDict]}
    \cup {[kind |-> "object", obj |-> o] : o \in Bodies \cup Reports}

\* Python truthiness of the parsed payload
truthy(payload) ==
    CASE payload.kind = "null" -> FALSE
      [] payload.kind = "number" -> TRUE
      [] OTHER -> DOMAIN payload.obj # {}

\* the ids a detail request can name: the route needs a non-empty segment
PathIds == (DeviceIds \ {""}) \cup {"missing-id"}

NoResp == [op |-> "none"]

----------------------------------------------------------------------------
(* ingest_metrics *)

\* variant: only the truthiness of the payload is checked
invalid_payload_lax(payload) == ~truthy(payload)

\* the payload fails the check of line 25
invalid_payload(payload) == ~truthy(payload) \/ ~Has(payload.obj, "device_id")

\* variant: a received_at the producer sent is kept (setdefault)
stamp_received_keep(data, now) ==
    IF Has(data, "received_at") THEN data
    ELSE Put(data, "received_at", utcnow_stamp(now))

\* data['received_at'] = datetime.utcnow().isoformat() + "Z"
stamp_received(data, now) == Put(data, "received_at", utcnow_stamp(now))

\* variant: the new report is merged into the entry (dict.update)
store_write_merge(store, device_id, data) ==
    Put(store, device_id,
        IF Has(store, device_id) THEN data @@ store[device_id] ELSE data)

\* variant: a write drops the entries that are older than the window
store_write_evict(store, device_id, data) ==
    LET t(entry) == fromisoformat(replace_Z(entry["received_at"])).t
        kept == {d \in DOMAIN store : t(data) - t(store[d]) <= _MAX_AGE_SECONDS}
    IN  Put([d \in kept |-> store[d]], device_id, data)

\* variant: a write keeps the stored entry when its received_at is later
store_write_newest(store, device_id, data) ==
    LET t(entry) == fromisoformat(replace_Z(entry["received_at"])).t
    IN  IF Has(store, device_id) /\ t(store[device_id]) > t(data)
        THEN store
        ELSE Put(store, device_id, data)

\* _metrics_store[device_id] = data
store_write(store, device_id, data) == Put(store, device_id, data)

\* the 200 response of ingest_metrics
ingest_ok(device_id, data) ==
    [status |-> "ok", device_id |-> device_id, received_at |-> data["received_at"]]

----------------------------------------------------------------------------
(* Freshness: the three handlers parse received_at and compare the age *)

\* datetime.fromisoformat(data['received_at'].replace('Z', '+00:00')) and
\* (datetime.now(received_at.tzinfo) - received_at).total_seconds();
\* ok = FALSE when the try block raises (no received_at, or not parsable).
\* The server's local zone is taken to be UTC for a naive timestamp.
parse_age(data, now) ==
    IF ~Has(data, "received_at")
    THEN [ok |-> FALSE, age_seconds |-> 0]
    ELSE LET received_at == fromisoformat(replace_Z(data["received_at"]))
         IN  [ok |-> received_at.ok, age_seconds |-> now - received_at.t]

\* list_devices: is_stale
list_is_stale(data, now) ==
    LET a == parse_age(data, now)
    IN  IF a.ok THEN a.age_seconds > _MAX_AGE_SECONDS ELSE TRUE

\* get_device_metrics: is_stale
detail_is_stale(data, now) ==
    LET a == parse_age(data, now)
    IN  IF a.ok THEN a.age_seconds > _MAX_AGE_SECONDS ELSE TRUE

\* variant: an entry whose age equals the window counts as offline
latest_is_online_strict(data, now) ==
    LET a == parse_age(data, now)
    IN  IF a.ok THEN a.age_seconds < _MAX_AGE_SECONDS ELSE FALSE

\* get_latest_metrics: is_online
latest_is_online(data, now) ==
    LET a == parse_age(data, now)
    IN  IF a.ok THEN a.age_seconds <= _MAX_AGE_SECONDS ELSE FALSE

----------------------------------------------------------------------------
(* Iteration over the store.  The order of iteration is abstracted to a    *)
(* fixed order of the keys; no result modelled here depends on it.         *)

KeyOrder == <<"", "d1", "d2">>

items(store) == SelectSeq(KeyOrder, LAMBDA k : k \in DOMAIN store)

----------------------------------------------------------------------------
(* list_devices *)

\* variant: a stale device keeps a self-reported critical
list_status_keep_critical(data, is_stale) ==
    IF is_stale /\ Get(data, "overall_status", "unknown") # "critical"
    THEN "offline" ELSE Get(data, "overall_status", "unknown")

list_status(data, is_stale) ==
    IF is_stale THEN "offline" ELSE Get(data, "overall_status", "unknown")

list_row(device_id, data, now) ==
    LET is_stale == list_is_stale(data, now)
    IN  [device_id |-> device_id,
         hostname |-> Get(data, "hostname", "Unknown"),
         device_type |-> Get(data, "device_type", "unknown"),
         overall_status |-> list_status(data, is_stale),
         last_seen |-> Get(data, "received_at", "None"),
         is_stale |-> is_stale]

list_devices_body(store, now) ==
    LET keys == items(store)
    IN  [devices |-> [i \in 1..Len(keys) |-> list_row(keys[i], store[keys[i]], now)]]

----------------------------------------------------------------------------
(* get_device_metrics *)

detail_body(data, now) ==
    LET a == parse_age(data, now)
    IN  IF a.ok
        THEN Put(Put(data, "is_stale", detail_is_stale(data, now)),
                 "age_seconds", a.age_seconds)
        ELSE Put(data, "is_stale", TRUE)

----------------------------------------------------------------------------
(* get_latest_metrics *)

\* the response for an empty store
no_data_body ==
    [status |-> "no_data",
     devices |-> <<>>,
     summary |-> [total_devices |-> 0, online |-> 0, offline |-> 0,
                  healthy |-> 0, warning |-> 0, critical |-> 0],
     system_status |->
        [network  |-> [status |-> "unknown", detail |-> "No data"],
         compute  |-> [status |-> "unknown", detail |-> "No data"],
         storage  |-> [status |-> "unknown", detail |-> "No data"],
         cooling  |-> [status |-> "unknown", detail |-> "No data"],
         security |-> [status |-> "unknown", detail |-> "No data"],
         power    |-> [status |-> "unknown", detail |-> "No data"]]]

\* the accumulators before the loop
latest_start ==
    [devices |-> <<>>,
     summary |-> [total_devices |-> 0, online |-> 0, offline |-> 0,
                  healthy |-> 0, warning |-> 0, critical |-> 0],
     cpu_statuses |-> <<>>, memory_statuses |-> <<>>,
     disk_statuses |-> <<>>, network_statuses |-> <<>>]

\* variant: every status that is neither warning nor critical counts as healthy
count_health_lax(summary, status) ==
    IF status \in {"warning", "critical"}
    THEN [summary EXCEPT ![status] = @ + 1]
    ELSE [summary EXCEPT !.healthy = @ + 1]

\* summary after the health bucket of an online device is counted
count_health(summary, status) ==
    IF status \in {"healthy", "warning", "critical"}
    THEN [summary EXCEPT ![status] = @ + 1]
    ELSE summary

\* statuses.append(metrics[name].get('status', 'unknown')) if name in metrics
collect(statuses, metrics, name) ==
    IF Has(metrics, name)
    THEN Append(statuses, Get(metrics[name], "status", "unknown"))
    ELSE statuses

\* variant: the readings of every device are collected
collects_all(is_online) == TRUE

\* whether the readings of this device are collected
collects(is_online) == is_online

latest_status(data, is_online) ==
    IF ~is_online THEN "offline" ELSE Get(data, "overall_status", "unknown")

\* one pass of the loop body
latest_step(acc, device_id, data, now) ==
    LET a == parse_age(data, now)
        is_online == latest_is_online(data, now)
        age_seconds == IF a.ok THEN a.age_seconds ELSE 999
        metrics == Get(data, "metrics", EmptyDict)
        total == [acc.summary EXCEPT !.total_devices = @ + 1]
        summary ==
            IF is_online
            THEN count_health([total EXCEPT !.online = @ + 1],
                              Get(data, "overall_status", "unknown"))
            ELSE [total EXCEPT !.offline = @ + 1]
        row == [device_id |-> device_id,
                hostname |-> Get(data, "hostname", "Unknown"),
                platform |-> Get(data, "platform", "Unknown"),
                is_online |-> is_online,
                overall_status |-> latest_status(data, is_online),
                metrics |-> metrics,
                last_seen |-> Get(data, "received_at", "None"),
                age_seconds |-> IF age_seconds # 999 THEN age_seconds ELSE -1]
        on == collects(is_online)
    IN  [devices |-> Append(acc.devices, row),
         summary |-> summary,
         cpu_statuses |->
            IF on THEN collect(acc.cpu_statuses, metrics, "cpu")
                  ELSE acc.cpu_statuses,
         memory_statuses |->
            IF on THEN collect(acc.memory_statuses, metrics, "memory")
                  ELSE acc.memory_statuses,
         disk_statuses |->
            IF on THEN collect(acc.disk_statuses, metrics, "disk")
                  ELSE acc.disk_statuses,
         network_statuses |->
            IF on THEN collect(acc.network_statuses, metrics, "network")
                  ELSE acc.network_statuses]

RECURSIVE latest_loop(_, _, _, _)
latest_loop(acc, keys, store, now) ==
    IF keys = <<>> THEN acc
    ELSE latest_loop(latest_step(acc, Head(keys), store[Head(keys)], now),
                     Tail(keys), store, now)

\* x in statuses
In(x, statuses) == \E i \in 1..Len(statuses) : statuses[i] = x

\* variant: warning is looked for before critical
aggregate_status_warning_first(statuses) ==
    IF statuses = <<>> THEN "unknown"
    ELSE IF In("warning", statuses) THEN "warning"
    ELSE IF In("critical", statuses) THEN "critical"
    ELSE IF \A i \in 1..Len(statuses) : statuses[i] = "healthy" THEN "healthy"
    ELSE "unknown"

aggregate_status(statuses) ==
    IF statuses = <<>> THEN "unknown"
    ELSE IF In("critical", statuses) THEN "critical"
    ELSE IF In("warning", statuses) THEN "warning"
    ELSE IF \A i \in 1..Len(statuses) : statuses[i] = "healthy" THEN "healthy"
    ELSE "unknown"

\* the place of a last_seen string in Python's string order: the stamps
\* utcnow().isoformat() + "Z" order as their times do, and the other strings
\* that occur begin with a letter and come after every stamp
last_seen_rank(s) ==
    IF \E t \in Times : s = utcnow_stamp(t)
    THEN CHOOSE t \in Times : s = utcnow_stamp(t)
    ELSE MaxClock + 1

\* max(devices, key=lambda d: d.get('last_seen', '')) compares None with a
\* string (TypeError) when there are two rows or more and one row has
\* last_seen None
max_raises(devices) ==
    /\ Len(devices) >= 2
    /\ \E i \in 1..Len(devices) : devices[i].last_seen = "None"

\* max(devices, key=...): the first row whose last_seen is the greatest
most_recent(devices) ==
    devices[CHOOSE i \in 1..Len(devices) :
                \A j \in 1..Len(devices) :
                    \/ last_seen_rank(devices[j].last_seen)
                            < last_seen_rank(devices[i].last_seen)
                    \/ /\ last_seen_rank(devices[j].last_seen)
                            = last_seen_rank(devices[i].last_seen)
                       /\ i <= j]

\* f"{...get('connections', 0)} connections" if recent_metrics.get('network')
network_detail(recent_metrics) ==
    LET network == Get(recent_metrics, "network", EmptyDict)
    IN  IF DOMAIN network # {}
        THEN ToString(Get(network, "connections", 0)) \o " connections"
        ELSE "No data"

\* f"{usage_percent:.1f}{unit}" if ....get('usage_percent') else "No data";
\* the readings that occur are whole numbers
usage_detail(recent_metrics, name, unit) ==
    LET usage_percent ==
            Get(Get(recent_metrics, name, EmptyDict), "usage_percent", 0)
    IN  IF usage_percent # 0
        THEN ToString(usage_percent) \o ".0" \o unit
        ELSE "No data"

\* variant: power is healthy only when no device is offline
power_status_all_online(summary) ==
    IF summary.online > 0 /\ summary.offline = 0 THEN "healthy" ELSE "unknown"

\* "healthy" if summary["online"] > 0 else "unknown"
power_status(summary) ==
    IF summary.online > 0 THEN "healthy" ELSE "unknown"

system_status_of(acc) ==
    LET recent_metrics == most_recent(acc.devices).metrics
    IN
    [network  |-> [status |-> aggregate_status(acc.network_statuses),
                   detail |-> network_detail(recent_metrics)],
     compute  |-> [status |-> aggregate_status(acc.cpu_statuses),
                   detail |-> usage_detail(recent_metrics, "cpu", "% CPU")],
     storage  |-> [status |-> aggregate_status(acc.disk_statuses),
                   detail |-> usage_detail(recent_metrics, "disk", "% used")],
     cooling  |-> [status |-> "healthy", detail |-> "Temperature optimal"],
     security |-> [status |-> "healthy", detail |-> "All systems secure"],
     power    |-> [status |-> power_status(acc.summary),
                   detail |-> ToString(acc.summary.online) \o "/"
                              \o ToString(acc.summary.total_devices) \o " online"]]

\* variant: the no-data response is also given when no device is online
latest_body_no_online(store, now) ==
    LET acc == latest_loop(latest_start, items(store), store, now)
    IN  IF acc.summary.online = 0 THEN no_data_body
        ELSE [status |-> "ok",
              timestamp |-> utcnow_stamp(now),
              devices |-> acc.devices,
              summary |-> acc.summary,
              system_status |-> system_status_of(acc)]

\* the response built after the loop
latest_ok_body(acc, now) ==
    [status |-> "ok",
     timestamp |-> utcnow_stamp(now),
     devices |-> acc.devices,
     summary |-> acc.summary,
     system_status |-> system_status_of(acc)]

latest_body(store, now) ==
    IF DOMAIN store = {} THEN no_data_body
    ELSE latest_ok_body(latest_loop(latest_start, items(store), store, now), now)

\* the status lists the loop collected (kept with the response to state
\* properties of the rollups)
latest_collected(store, now) ==
    LET acc == latest_loop(latest_start, items(store), store, now)
    IN  [cpu |-> acc.cpu_statuses, memory |-> acc.memory_statuses,
         disk |-> acc.disk_statuses, network |-> acc.network_statuses]

\* the handler ends in the TypeError of line 192: nothing catches it and
\* the client gets the 500 of the framework
latest_raises(store, now) ==
    max_raises(latest_loop(latest_start, items(store), store, now).devices)

----------------------------------------------------------------------------
(* Request threads: the development server runs every request in a thread *)
(* of its own                                                             *)

Threads == {"t1", "t2"}

\* a thread that serves no request
Idle == [pc |-> "idle"]

\* no thread holds _metrics_lock
Free == "free"

\* no dashboard was answered since the last record
NoDashboard == [at |-> -1]

\* the local `metrics` of _monitor_loop before collect has returned
NoMetrics == [device_id |-> ""]

\* MonitorClient.__init__: running is False and there is no thread; main is
\* where the caller is (created, started, stopped, exited), pc where the
\* loop thread is, readings what collect has read from psutil so far, last
\* what the cycle before did (history)
NewClient ==
    [running |-> FALSE, main |-> "created", pc |-> "none",
     readings |-> <<>>, metrics |-> NoMetrics, last |-> "none"]

----------------------------------------------------------------------------
Init ==
    /\ _metrics_store = EmptyDict
    /\ clock = 0
    /\ resp = NoResp
    /\ lastReport = EmptyDict
    /\ _metrics_lock = Free
    /\ threads = [t \in Threads |-> Idle]
    /\ lastAcquired = EmptyDict
    /\ lastDashboard = NoDashboard
    /\ client = NewClient

\* time passes
Tick ==
    /\ resp = NoResp
    /\ clock + ClockStep <= MaxClock
    /\ clock' = clock + ClockStep
    /\ UNCHANGED <<_metrics_store, resp, lastReport>>

\* POST /api/metrics/ingest.  now is the clock value the handler read at
\* line 29; the store is written when the handler holds the lock.
\* dropped (kept with the response to state properties) tells whether the
\* entry that was overwritten had a field the new report lacks.
ingest_metrics(payload, now) ==
    /\ resp = NoResp
    /\ now <= clock
    /\ clock - now <= ClockStep
    /\ IF payload.kind = "number"
       THEN \* 'device_id' not in data raises TypeError: the except branch
            /\ resp' = [op |-> "ingest", payload |-> payload, code |-> 500,
                        body |-> [error |-> "TypeError"]]
            /\ UNCHANGED <<_metrics_store, lastReport>>
       ELSE IF invalid_payload(payload)
       THEN /\ resp' = [op |-> "ingest", payload |-> payload, code |-> 400,
                        body |-> [error |-> "Invalid payload, device_id required"]]
            /\ UNCHANGED <<_metrics_store, lastReport>>
       ELSE IF ~Has(payload.obj, "device_id")
       THEN \* data['device_id'] raises KeyError: the except branch
            /\ resp' = [op |-> "ingest", payload |-> payload, code |-> 500,
                        body |-> [error |-> "KeyError"]]
            /\ UNCHANGED <<_metrics_store, lastReport>>
       ELSE LET device_id == payload.obj["device_id"]
                data == stamp_received(payload.obj, now)
                old == Get(_metrics_store, device_id, EmptyDict)
            IN  /\ _metrics_store' = store_write(_metrics_store, device_id, data)
                /\ lastReport' = Put(lastReport, device_id, payload.obj)
                /\ resp' = [op |-> "ingest", payload |-> payload, code |-> 200,
                            now |-> now, body |-> ingest_ok(device_id, data),
                            dropped |-> (DOMAIN old) \ (DOMAIN data) # {}]
    /\ UNCHANGED clock

\* GET /api/metrics/devices
list_devices ==
    /\ resp = NoResp
    /\ resp' = [op |-> "list", code |-> 200,
                body |-> list_devices_body(_metrics_store, clock)]
    /\ UNCHANGED <<_metrics_store, clock, lastReport>>

\* variant: a stale entry is answered as not found
get_device_metrics_expire(device_id) ==
    /\ resp = NoResp
    /\ resp' = IF ~Has(_metrics_store, device_id)
                  \/ detail_is_stale(_metrics_store[device_id], clock)
               THEN [op |-> "get", device_id |-> device_id, code |-> 404,
                     body |-> [error |-> "Device not found"]]
               ELSE [op |-> "get", device_id |-> device_id, code |-> 200,
                     body |-> detail_body(_metrics_store[device_id], clock)]
    /\ UNCHANGED <<_metrics_store, clock, lastReport>>

\* variant: is_stale and age_seconds are written to the stored entry (no copy)
get_device_metrics_inplace(device_id) ==
    /\ resp = NoResp
    /\ resp' = IF ~Has(_metrics_store, device_id)
               THEN [op |-> "get", device_id |-> device_id, code |-> 404,
                     body |-> [error |-> "Device not found"]]
               ELSE [op |-> "get", device_id |-> device_id, code |-> 200,
                     body |-> detail_body(_metrics_store[device_id], clock)]
    /\ _metrics_store' =
            IF ~Has(_metrics_store, device_id) THEN _metrics_store
            ELSE Put(_metrics_store, device_id,
                     detail_body(_metrics_store[device_id], clock))
    /\ UNCHANGED <<clock, lastReport>>

\* GET /api/metrics/device/<device_id>
get_device_metrics(device_id) ==
    /\ resp = NoResp
    /\ resp' = IF ~Has(_metrics_store, device_id)
               THEN [op |-> "get", device_id |-> device_id, code |-> 404,
                     body |-> [error |-> "Device not found"]]
               ELSE [op |-> "get", device_id |-> device_id, code |-> 200,
                     body |-> detail_body(_metrics_store[device_id], clock)]
    /\ UNCHANGED <<_metrics_store, clock, lastReport>>

\* variant: the counters of the summary are kept between two calls instead
\* of starting at 0 in every call
get_latest_metrics_stateful ==
    /\ resp = NoResp
    /\ resp' = [op |-> "latest", code |-> 200,
                body |-> [latest_body(_metrics_store, clock)
                            EXCEPT !.summary.total_devices =
                                IF lastDashboard = NoDashboard THEN @
                                ELSE @ + lastDashboard.summary.total_devices],
                collected |-> latest_collected(_metrics_store, clock)]
    /\ UNCHANGED <<_metrics_store, clock, lastReport>>

\* GET /api/metrics/latest
get_latest_metrics ==
    /\ resp = NoResp
    /\ resp' = IF latest_raises(_metrics_store, clock)
               THEN [op |-> "latest", code |-> 500,
                     body |-> [error |-> "TypeError"]]
               ELSE [op |-> "latest", code |-> 200,
                     body |-> latest_body(_metrics_store, clock),
                     collected |-> latest_collected(_metrics_store, clock)]
    /\ UNCHANGED <<_metrics_store, clock, lastReport>>

\* return jsonify(...): the response leaves the handler
respond ==
    /\ resp # NoResp
    /\ resp' = NoResp
    /\ UNCHANGED <<_metrics_store, clock, lastReport>>

\* one handler at a time: the lock and the threads play no part
Next ==
    \/ Tick /\ UNCHANGED aux
    \/ respond /\ UNCHANGED aux
    \/ \E payload \in Payloads, now \in Times :
            ingest_metrics(payload, now) /\ UNCHANGED aux
    \/ list_devices /\ UNCHANGED aux
    \/ \E device_id \in PathIds : get_device_metrics(device_id) /\ UNCHANGED aux
    \/ get_latest_metrics /\ UNCHANGED aux

Spec == Init /\ [][Next]_vars

----------------------------------------------------------------------------
(* The same handlers, one at a time, with the last dashboard remembered,   *)
(* over fewer reports; time does pass and a response is handed over.       *)

SeqBodies ==
    { [hostname |-> "web-1", overall_status |-> "healthy",
       metrics |-> [cpu |-> [status |-> "healthy", usage_percent |-> 42],
                    disk |-> [status |-> "healthy"],
                    network |-> [status |-> "healthy"]]],
      [overall_status |-> "critical",
       metrics |-> [cpu |-> [status |-> "critical"],
                    network |-> [connections |-> 12]]] }

SeqPayloads ==
    {[kind |-> "null", obj |-> EmptyDict]}
    \cup {[kind |-> "object", obj |-> Put(b, "device_id", d)] :
            b \in SeqBodies, d \in DeviceIds \ {""}}

\* history: the summary and system_status of the dashboard answered last,
\* the clock at that call and at the one before it; forgotten at a record
remember ==
    /\ lastDashboard' =
            IF resp'.op = "latest" /\ resp'.code = 200
            THEN [at |-> clock, before |-> lastDashboard.at,
                  summary |-> resp'.body.summary,
                  system_status |-> resp'.body.system_status]
            ELSE IF resp'.op = "ingest" THEN NoDashboard
            ELSE lastDashboard
    /\ UNCHANGED <<_metrics_lock, threads, lastAcquired, client>>

NextSeq ==
    \/ Tick /\ remember
    \/ respond /\ remember
    \/ \E payload \in SeqPayloads, now \in Times :
            ingest_metrics(payload, now) /\ remember
    \/ list_devices /\ remember
    \/ \E device_id \in PathIds : get_device_metrics(device_id) /\ remember
    \/ get_latest_metrics /\ remember

\* the clock advances whatever the requests do, and a handler that has
\* built its response returns it
SpecSeq ==
    /\ Init
    /\ [][NextSeq]_vars
    /\ SF_vars(Tick /\ remember)
    /\ WF_vars(respond /\ remember)

----------------------------------------------------------------------------
(* The handlers as the threads of the server run them: a request is taken  *)
(* by a thread, the thread waits for _metrics_lock, a query reads the      *)
(* store one entry at a time (and the clock once per entry), and the lock  *)
(* is released when the with block is left.                                *)

ConcBodies ==
    { [overall_status |-> "healthy",
       metrics |-> [cpu |-> [status |-> "healthy"]]],
      [overall_status |-> "critical",
       metrics |-> [cpu |-> [status |-> "critical"]]] }

ConcPayloads ==
    {[kind |-> "null", obj |-> EmptyDict]}
    \cup {[kind |-> "object", obj |-> Put(b, "device_id", d)] :
            b \in ConcBodies, d \in DeviceIds \ {""}}

\* no other record call for the device completed while this one ran
NoRace == [device_id |-> ""]

\* variant: only the writer takes the lock
locked_handlers_writer_only == {"ingest"}

\* the handlers whose work is inside `with _metrics_lock:`
locked_handlers == {"ingest", "list", "get", "latest"}

\* lines 23-29 of ingest_metrics: the payload is checked and stamped, and
\* the thread goes on to wait for the lock
ingest_begin(t, payload) ==
    /\ resp = NoResp
    /\ threads[t] = Idle
    /\ IF payload.kind = "number"
       THEN /\ resp' = [op |-> "ingest", payload |-> payload, code |-> 500,
                        body |-> [error |-> "TypeError"]]
            /\ UNCHANGED threads
       ELSE IF invalid_payload(payload)
       THEN /\ resp' = [op |-> "ingest", payload |-> payload, code |-> 400,
                        body |-> [error |-> "Invalid payload, device_id required"]]
            /\ UNCHANGED threads
       ELSE IF ~Has(payload.obj, "device_id")
       THEN /\ resp' = [op |-> "ingest", payload |-> payload, code |-> 500,
                        body |-> [error |-> "KeyError"]]
            /\ UNCHANGED threads
       ELSE /\ threads' = [threads EXCEPT ![t] =
                    [pc |-> "ingest_wait", op |-> "ingest",
                     device_id |-> payload.obj["device_id"],
                     data |-> stamp_received(payload.obj, clock),
                     raced |-> NoRace]]
            /\ UNCHANGED resp
    /\ UNCHANGED <<_metrics_store, clock, lastReport, _metrics_lock,
                   lastAcquired, lastDashboard, client>>

\* a query request is taken by a thread, which goes on to wait for the lock
query_begin(t, op, device_id) ==
    /\ resp = NoResp
    /\ threads[t] = Idle
    /\ threads' = [threads EXCEPT ![t] =
            [pc |-> "wait", op |-> op, device_id |-> device_id]]
    /\ UNCHANGED <<_metrics_store, clock, resp, lastReport, _metrics_lock,
                   lastAcquired, lastDashboard, client>>

\* with _metrics_lock: the thread enters the block.  A query starts its
\* iteration over the keys the store has now; snapshot and seen are history
\* (the store at this moment, and the entries the loop has read).
acquire(t) ==
    /\ resp = NoResp
    /\ threads[t].pc \in {"ingest_wait", "wait"}
    /\ threads[t].op \in locked_handlers => _metrics_lock = Free
    /\ _metrics_lock' =
            IF threads[t].op \in locked_handlers THEN t ELSE _metrics_lock
    /\ IF threads[t].op = "ingest"
       THEN /\ threads' = [threads EXCEPT ![t].pc = "ingest_locked"]
            /\ lastAcquired' =
                    Put(lastAcquired, threads[t].device_id, threads[t].data)
       ELSE /\ threads' = [threads EXCEPT ![t] =
                    [pc |-> "locked", op |-> threads[t].op,
                     device_id |-> threads[t].device_id,
                     no_data |-> DOMAIN _metrics_store = {},
                     keys |-> IF threads[t].op = "get" THEN <<>>
                              ELSE items(_metrics_store),
                     acc |-> latest_start,
                     snapshot |-> _metrics_store,
                     seen |-> <<>>]]
            /\ UNCHANGED lastAcquired
    /\ UNCHANGED <<_metrics_store, clock, resp, lastReport, lastDashboard, client>>

\* _metrics_store[device_id] = data, the with block is left and the 200 is
\* returned; a record call for the same device that is still waiting has
\* been overtaken (history), and the entry that was replaced is kept with
\* the response (history)
ingest_write(t) ==
    /\ resp = NoResp
    /\ threads[t].pc = "ingest_locked"
    /\ _metrics_store' =
            store_write(_metrics_store, threads[t].device_id, threads[t].data)
    /\ _metrics_lock' = IF _metrics_lock = t THEN Free ELSE _metrics_lock
    /\ threads' = [u \in Threads |->
            IF u = t THEN Idle
            ELSE IF /\ threads[u].pc = "ingest_wait"
                    /\ threads[u].device_id = threads[t].device_id
                 THEN [threads[u] EXCEPT !.raced = threads[t].data]
                 ELSE threads[u]]
    /\ resp' = [op |-> "ingest", code |-> 200, thread |-> t,
                body |-> ingest_ok(threads[t].device_id, threads[t].data),
                data |-> threads[t].data, raced |-> threads[t].raced,
                overwritten |-> Get(_metrics_store, threads[t].device_id, EmptyDict)]
    /\ UNCHANGED <<clock, lastReport, lastAcquired, lastDashboard, client>>

\* one pass of the loop of list_devices or get_latest_metrics: the entry
\* of the next key is read from the store and classified by the clock
query_step(t) ==
    /\ resp = NoResp
    /\ threads[t].pc = "locked"
    /\ threads[t].keys # <<>>
    /\ LET device_id == Head(threads[t].keys)
           data == _metrics_store[device_id]
           acc == threads[t].acc
       IN  threads' = [threads EXCEPT
                ![t].keys = Tail(@),
                ![t].seen = Append(@, [device_id |-> device_id, data |-> data]),
                ![t].acc =
                    IF threads[t].op = "list"
                    THEN [acc EXCEPT !.devices =
                            Append(@, list_row(device_id, data, clock))]
                    ELSE latest_step(acc, device_id, data, clock)]
    /\ UNCHANGED <<_metrics_store, clock, resp, lastReport, _metrics_lock,
                   lastAcquired, lastDashboard, client>>

\* return jsonify(...): the response is built, the with block is left
query_finish(t) ==
    /\ resp = NoResp
    /\ threads[t].pc = "locked"
    /\ threads[t].keys = <<>>
    /\ LET device_id == threads[t].device_id
           acc == threads[t].acc
           answer ==
                CASE threads[t].op = "list" ->
                        [code |-> 200, body |-> [devices |-> acc.devices]]
                  [] threads[t].op = "get" ->
                        IF ~Has(_metrics_store, device_id)
                        THEN [code |-> 404,
                              body |-> [error |-> "Device not found"]]
                        ELSE [code |-> 200,
                              body |-> detail_body(_metrics_store[device_id], clock)]
                  [] OTHER ->
                        IF threads[t].no_data
                        THEN [code |-> 200, body |-> no_data_body]
                        ELSE IF max_raises(acc.devices)
                        THEN [code |-> 500, body |-> [error |-> "TypeError"]]
                        ELSE [code |-> 200, body |-> latest_ok_body(acc, clock)]
       IN  resp' = [op |-> threads[t].op, code |-> answer.code,
                    body |-> answer.body, thread |-> t,
                    device_id |-> device_id,
                    snapshot |-> threads[t].snapshot,
                    seen |-> threads[t].seen]
    /\ _metrics_lock' = IF _metrics_lock = t THEN Free ELSE _metrics_lock
    /\ threads' = [threads EXCEPT ![t] = Idle]
    /\ UNCHANGED <<_metrics_store, clock, lastReport, lastAcquired,
                   lastDashboard, client>>

NextConc ==
    \/ Tick /\ UNCHANGED aux
    \/ respond /\ UNCHANGED aux
    \/ \E t \in Threads, payload \in ConcPayloads : ingest_begin(t, payload)
    \/ \E t \in Threads, op \in {"list", "latest"} : query_begin(t, op, "")
    \/ \E t \in Threads, device_id \in PathIds : query_begin(t, "get", device_id)
    \/ \E t \in Threads : acquire(t)
    \/ \E t \in Threads : ingest_write(t)
    \/ \E t \in Threads : query_step(t)
    \/ \E t \in Threads : query_finish(t)

SpecConc == Init /\ [][NextConc]_vars

----------------------------------------------------------------------------
(* The handlers over stores that hold entries the ingest handler never     *)
(* writes: an entry without received_at and one whose received_at does not *)
(* parse.  The three queries have a branch for them (the except clauses).  *)

\* entries as they lie in the store, before device_id is set
Entries ==
    { [overall_status |-> "healthy", received_at |-> "0Z",
       metrics |-> [cpu |-> [status |-> "healthy"],
                    disk |-> [status |-> "healthy"]]],
      [overall_status |-> "healthy",
       metrics |-> [cpu |-> [status |-> "critical"],
                    disk |-> [status |-> "warning"]]],
      [overall_status |-> "healthy", received_at |-> "yesterday",
       metrics |-> [cpu |-> [status |-> "critical"],
                    disk |-> [status |-> "warning"]]] }

EntryStores ==
    LET stores(D) == {[d \in D |-> Put(f[d], "device_id", d)] : f \in [D -> Entries]}
    IN  UNION {stores(D) : D \in SUBSET (DeviceIds \ {""})}

InitEntries ==
    /\ _metrics_store \in EntryStores
    /\ clock = 0
    /\ resp = NoResp
    /\ lastReport = _metrics_store
    /\ _metrics_lock = Free
    /\ threads = [t \in Threads |-> Idle]
    /\ lastAcquired = EmptyDict
    /\ lastDashboard = NoDashboard
    /\ client = NewClient

SpecEntries == InitEntries /\ [][NextSeq]_vars

----------------------------------------------------------------------------
(* monitor_client.py: SystemMetricsCollector builds a report from the      *)
(* usage percentages psutil gives, MonitorClient sends one report per      *)
(* cycle from a thread of its own until it is stopped.                     *)

\* the usage percentages go from 0 to MaxPercent in steps of PercentStep
PercentStep == 5
MaxPercent == 100

Percentages == {p \in 0..MaxPercent : p % PercentStep = 0}

\* "healthy" if percent < 80 else "warning" if percent < 95 else "critical"
usage_status(percent) ==
    IF percent < 80 THEN "healthy"
    ELSE IF percent < 95 THEN "warning"
    ELSE "critical"

_calculate_overall_status(cpu, memory, disk) ==
    IF cpu > 95 \/ memory > 95 \/ disk > 95 THEN "critical"
    ELSE IF cpu > 80 \/ memory > 80 \/ disk > 80 THEN "warning"
    ELSE "healthy"

\* the report of collect when psutil answers; the sizes, counters and times
\* of the report are left out, and no temperature sensor is present
collect_report(cpu_percent, memory_percent, disk_percent) ==
    [device_id |-> "d1",
     device_type |-> "local",
     metrics |->
        [cpu |-> [usage_percent |-> cpu_percent,
                  status |-> usage_status(cpu_percent)],
         memory |-> [usage_percent |-> memory_percent,
                     status |-> usage_status(memory_percent)],
         disk |-> [usage_percent |-> disk_percent,
                   status |-> usage_status(disk_percent)],
         network |-> [status |-> "healthy"],
         temperature |-> [status |-> "healthy"],
         system |-> [status |-> "healthy"]],
     overall_status |->
        _calculate_overall_status(cpu_percent, memory_percent, disk_percent)]

\* the report of collect when psutil is missing or raises
_get_fallback_metrics ==
    [device_id |-> "d1",
     device_type |-> "local",
     metrics |->
        [cpu |-> [status |-> "unknown"],
         memory |-> [status |-> "unknown"],
         disk |-> [status |-> "unknown"],
         network |-> [status |-> "unknown"],
         temperature |-> [status |-> "unknown"],
         system |-> [status |-> "unknown"]],
     overall_status |-> "unknown",
     error |-> "psutil not available"]

\* what requests.post and the checks around it come to
SendOutcomes == {"200", "non_200", "ConnectionError", "Exception", "no_requests"}

\* _send_metrics: True for a 200, False for everything else
send_result(outcome) == outcome = "200"

\* variant: an exception of collect is not caught and ends the thread
loop_after_uncaught(outcome) ==
    IF outcome = "collect_raised" THEN "terminated" ELSE "sleep"

\* where the loop goes after the try block: to time.sleep, whether the
\* cycle sent, failed to send or raised
loop_after(outcome) == "sleep"

\* MonitorClient.start
start ==
    /\ client.main = "created"
    /\ client' = [client EXCEPT !.running = TRUE, !.main = "started",
                                !.pc = "test"]
    /\ UNCHANGED server

\* while self.running:
loop_test ==
    /\ client.pc = "test"
    /\ client' = [client EXCEPT !.pc = IF client.running THEN "collect"
                                                        ELSE "terminated"]
    /\ UNCHANGED server

\* where the loop thread is while it is inside collect
CollectPcs == {"collect", "collect_memory", "collect_disk"}

\* cpu_percent = psutil.cpu_percent(interval=1)
cpu_percent_read(cpu_percent) ==
    /\ client.pc = "collect"
    /\ client' = [client EXCEPT !.readings = <<cpu_percent>>,
                                !.pc = "collect_memory"]
    /\ UNCHANGED server

\* memory = psutil.virtual_memory()
virtual_memory_read(memory_percent) ==
    /\ client.pc = "collect_memory"
    /\ client' = [client EXCEPT !.readings = Append(@, memory_percent),
                                !.pc = "collect_disk"]
    /\ UNCHANGED server

\* disk = psutil.disk_usage('/') and the rest of collect: the report is
\* returned to the loop as metrics
collector_collect(disk_percent) ==
    /\ client.pc = "collect_disk"
    /\ client' = [client EXCEPT
            !.metrics = collect_report(client.readings[1], client.readings[2],
                                       disk_percent),
            !.readings = <<>>,
            !.pc = "send"]
    /\ UNCHANGED server

\* metrics = self.collector.collect(), psutil missing or raising
collect_fallback ==
    /\ client.pc \in CollectPcs
    /\ client' = [client EXCEPT !.metrics = _get_fallback_metrics,
                                !.readings = <<>>, !.pc = "send"]
    /\ UNCHANGED server

\* self.collector.collect() raises: except Exception of the loop
collect_raises ==
    /\ client.pc \in CollectPcs
    /\ client' = [client EXCEPT !.pc = loop_after("collect_raised"),
                                !.readings = <<>>,
                                !.last = "collect_raised"]
    /\ UNCHANGED server

\* self._send_metrics(metrics): the result is not looked at
_send_metrics(outcome) ==
    /\ client.pc = "send"
    /\ client' = [client EXCEPT
            !.pc = loop_after(IF send_result(outcome) THEN "sent" ELSE "send_failed"),
            !.last = IF send_result(outcome) THEN "sent" ELSE "send_failed",
            !.metrics = NoMetrics]
    /\ UNCHANGED server

\* time.sleep(self.interval) returns
sleep ==
    /\ client.pc = "sleep"
    /\ client' = [client EXCEPT !.pc = "test"]
    /\ UNCHANGED server

\* MonitorClient.stop: running is set to False; the join gives up after 5 s
stop ==
    /\ client.main = "started"
    /\ client' = [client EXCEPT !.running = FALSE, !.main = "stopped"]
    /\ UNCHANGED server

\* main returns after stop: the process ends and takes the daemon thread
\* with it, wherever the thread is
main_exit ==
    /\ client.main = "stopped"
    /\ client' = [client EXCEPT !.main = "exited", !.pc = "terminated",
                                !.readings = <<>>, !.metrics = NoMetrics]
    /\ UNCHANGED server

\* the steps of the loop thread
_monitor_loop ==
    \/ loop_test
    \/ \E cpu_percent \in Percentages : cpu_percent_read(cpu_percent)
    \/ \E memory_percent \in Percentages : virtual_memory_read(memory_percent)
    \/ \E disk_percent \in Percentages : collector_collect(disk_percent)
    \/ collect_fallback
    \/ collect_raises
    \/ \E outcome \in SendOutcomes : _send_metrics(outcome)
    \/ sleep

NextClient ==
    \/ start
    \/ _monitor_loop
    \/ stop
    \/ main_exit

\* the loop thread is scheduled, and collect, the post (timeout 10 s) and
\* the sleep return
SpecClient == Init /\ [][NextClient]_vars /\ WF_vars(_monitor_loop)


----------------------------------------------------------------------------
(* Properties *)

\* the fields the engine sets on an entry or on the detail it returns
EngineFields == {"received_at", "is_stale", "age_seconds"}

\* the clock value at which the entry of device d was stamped
ReceivedTime(d) ==
    CHOOSE t \in Times : _metrics_store[d]["received_at"] = utcnow_stamp(t)

\* the entry of device d is older than the freshness window
Stale(d) == clock - ReceivedTime(d) > 60

\* the elements of a sequence
Range(seq) == {seq[i] : i \in 1..Len(seq)}

\* the rollup rule over a collection of subsystem statuses
Rollup(S) ==
    IF S = {} THEN "unknown"
    ELSE IF "critical" \in S THEN "critical"
    ELSE IF "warning" \in S THEN "warning"
    ELSE IF S = {"healthy"} THEN "healthy"
    ELSE "unknown"

\* a payload that is absent, empty, or an object without device_id
MissingDeviceId(payload) ==
    \/ payload.kind = "null"
    \/ payload.kind = "object" /\ ~Has(payload.obj, "device_id")

GetOk == resp.op = "get" /\ resp.code = 200
IngestOk == resp.op = "ingest" /\ resp.code = 200

\* C1 as stated: after a successful ingest of R, the detail of R's device
\* has every field of R with R's value and no field R lacks (other than the
\* three the engine adds).
C1_DetailEqualsReport ==
    GetOk =>
        LET R == lastReport[resp.device_id]
        IN  /\ \A k \in DOMAIN R : Has(resp.body, k) /\ resp.body[k] = R[k]
            /\ DOMAIN resp.body \subseteq (DOMAIN R) \cup EngineFields

\* What the code does give for C1: the detail has every field of the last
\* report other than received_at, is_stale and age_seconds with the
\* report's value, and no field besides those of the report and these three.
DetailEqualsReportButEngineFields ==
    GetOk =>
        LET R == lastReport[resp.device_id]
        IN  /\ \A k \in (DOMAIN R) \ EngineFields :
                    Has(resp.body, k) /\ resp.body[k] = R[k]
            /\ DOMAIN resp.body \subseteq (DOMAIN R) \cup EngineFields
            /\ Has(resp.body, "received_at") /\ Has(resp.body, "is_stale")

\* C2: an ingest whose payload is absent, empty or lacks device_id answers
\* 400 and leaves the store as it was.
C2_MissingDeviceIdRejected ==
    [][ (resp.op = "none" /\ resp'.op = "ingest" /\ MissingDeviceId(resp'.payload))
        => (resp'.code = 400 /\ _metrics_store' = _metrics_store) ]_vars

\* a report without device_id was rejected while the store held entries
C2_Witness ==
    /\ resp.op = "ingest"
    /\ resp.code = 400
    /\ resp.payload.kind = "object"
    /\ Has(resp.payload.obj, "overall_status")
    /\ DOMAIN _metrics_store # {}

\* C3 as stated: an ingest whose device_id is the empty string answers 400,
\* and no entry is ever keyed by the empty string.
C3_EmptyDeviceIdRejected ==
    /\ (resp.op = "ingest" /\ resp.payload.kind = "object"
          /\ Has(resp.payload.obj, "device_id")
          /\ resp.payload.obj["device_id"] = "")
       => resp.code = 400
    /\ ~Has(_metrics_store, "")

\* C4: one entry per device that was ever recorded, each equal to the last
\* report recorded for it with the engine's received_at (no field of an
\* earlier report survives); the device list has one row per entry.
C4_OneEntryPerDeviceReplaced ==
    /\ DOMAIN _metrics_store = DOMAIN lastReport
    /\ Cardinality(DOMAIN _metrics_store) = Cardinality(DOMAIN lastReport)
    /\ \A d \in DOMAIN _metrics_store :
        /\ DOMAIN _metrics_store[d] = (DOMAIN lastReport[d]) \cup {"received_at"}
        /\ \A k \in (DOMAIN lastReport[d]) \ {"received_at"} :
                _metrics_store[d][k] = lastReport[d][k]
    /\ resp.op = "list" =>
        /\ Len(resp.body.devices) = Cardinality(DOMAIN _metrics_store)
        /\ \A i, j \in 1..Len(resp.body.devices) :
                resp.body.devices[i].device_id = resp.body.devices[j].device_id
                    => i = j

\* a report overwrote an entry that had a field the report lacks, while
\* another device had an entry
C4_Witness ==
    /\ IngestOk
    /\ resp.dropped
    /\ Cardinality(DOMAIN _metrics_store) >= 2
    /\ ~Has(_metrics_store[resp.body.device_id], "hostname")

\* C5: after a successful ingest the entry's received_at is the clock value
\* the handler read, whatever received_at or timestamp the report carried;
\* the receipt carries the same value; the three views decide freshness of
\* that entry from it.
C5_ReceivedAtIsEngineClock ==
    IngestOk =>
        LET d == resp.body.device_id
            entry == _metrics_store[d]
        IN  /\ resp.now <= clock
            /\ entry["received_at"] = utcnow_stamp(resp.now)
            /\ resp.body.received_at = entry["received_at"]
            /\ \A now \in {t \in Times : t >= clock} :
                /\ list_is_stale(entry, now) = (now - resp.now > 60)
                /\ detail_is_stale(entry, now) = (now - resp.now > 60)
                /\ latest_is_online(entry, now) = ~(now - resp.now > 60)

\* a report carrying a received_at of its own was stored with another one
C5_Witness ==
    /\ IngestOk
    /\ Has(resp.payload.obj, "received_at")
    /\ resp.payload.obj["received_at"] # resp.body.received_at
    /\ resp.now > 0

\* the rows of a list or dashboard response
Rows == resp.body.devices

\* the entry a row was built from
EntryOf(row) == _metrics_store[row.device_id]

\* C6: in the device list and in the dashboard a stale device is offline
\* whatever overall_status its report carried, and the dashboard counts
\* the stale devices, and only them, as offline.
C6_StaleIsOffline ==
    /\ resp.op = "list" =>
        \A i \in 1..Len(Rows) :
            Stale(Rows[i].device_id) => Rows[i].overall_status = "offline"
    /\ resp.op = "latest" =>
        /\ \A i \in 1..Len(Rows) :
            Stale(Rows[i].device_id) =>
                Rows[i].overall_status = "offline" /\ ~Rows[i].is_online
        /\ resp.body.summary.offline =
                Cardinality({d \in DOMAIN _metrics_store : Stale(d)})
        /\ resp.body.summary.online =
                Cardinality({d \in DOMAIN _metrics_store : ~Stale(d)})

\* the dashboard shows a stale device that reported critical as offline,
\* next to a fresh device
C6_Witness ==
    /\ resp.op = "latest"
    /\ \E i \in 1..Len(Rows) :
        /\ Stale(Rows[i].device_id)
        /\ Get(EntryOf(Rows[i]), "overall_status", "unknown") = "critical"
        /\ Rows[i].overall_status = "offline"
    /\ resp.body.summary.offline = 1
    /\ resp.body.summary.online = 1

\* the status domain of the specification
Statuses == {"healthy", "warning", "critical", "unknown"}

\* the status the specification gives a device
SpecStatus(d) ==
    LET own == Get(_metrics_store[d], "overall_status", "unknown")
    IN  IF Stale(d) THEN "offline"
        ELSE IF own \in Statuses THEN own
        ELSE "unknown"

\* C7 as stated: a fresh device shows its own overall_status when that is
\* healthy, warning, critical or unknown, and unknown otherwise; a device
\* shows offline exactly when it is stale.
C7_FreshStatusInDomain ==
    resp.op \in {"list", "latest"} =>
        \A i \in 1..Len(Rows) :
            Rows[i].device_id # "" =>
                /\ Rows[i].overall_status = SpecStatus(Rows[i].device_id)
                /\ Rows[i].overall_status = "offline" <=> Stale(Rows[i].device_id)

\* C8: every view calls an entry stale exactly when its age is more than
\* 60 seconds (an age of exactly 60 is fresh), and the three rules agree on
\* every entry at every clock value.
C8_StaleIffOlderThanWindow ==
    /\ resp.op = "list" =>
        \A i \in 1..Len(Rows) : Rows[i].is_stale = Stale(Rows[i].device_id)
    /\ GetOk =>
        /\ resp.body["is_stale"] = Stale(resp.device_id)
        /\ resp.body["age_seconds"] = clock - ReceivedTime(resp.device_id)
    /\ resp.op = "latest" =>
        \A i \in 1..Len(Rows) : Rows[i].is_online = ~Stale(Rows[i].device_id)
    /\ resp.op = "none" =>
        \A d \in DOMAIN _metrics_store : \A now \in Times :
            /\ list_is_stale(_metrics_store[d], now)
                    = detail_is_stale(_metrics_store[d], now)
            /\ list_is_stale(_metrics_store[d], now)
                    = ~latest_is_online(_metrics_store[d], now)

\* the device list shows an entry aged exactly 60 seconds as fresh and an
\* entry aged 120 seconds as stale
C8_Witness ==
    /\ resp.op = "list"
    /\ \E i \in 1..Len(Rows) :
        /\ clock - ReceivedTime(Rows[i].device_id) = 60
        /\ ~Rows[i].is_stale
    /\ \E i \in 1..Len(Rows) :
        /\ clock - ReceivedTime(Rows[i].device_id) = 120
        /\ Rows[i].is_stale

\* C9: each subsystem rollup of the dashboard is unknown for no reading,
\* else critical if a reading is critical, else warning if one is warning,
\* else healthy if all are healthy, else unknown.
C9_RollupRule ==
    resp.op = "latest" =>
        /\ resp.body.system_status.network.status
                = Rollup(Range(resp.collected.network))
        /\ resp.body.system_status.compute.status
                = Rollup(Range(resp.collected.cpu))
        /\ resp.body.system_status.storage.status
                = Rollup(Range(resp.collected.disk))

\* one critical among healthy and warning readings gives critical, and a
\* mixture of healthy and unknown gives unknown
C9_Witness ==
    /\ resp.op = "latest"
    /\ Len(resp.collected.cpu) = 3
    /\ Range(resp.collected.cpu) = {"healthy", "warning", "critical"}
    /\ resp.body.system_status.compute.status = "critical"
    /\ Range(resp.collected.network) = {"healthy", "unknown"}
    /\ resp.body.system_status.network.status = "unknown"

\* the statuses of the readings named name of the fresh devices
FreshReadings(name) ==
    {Get(Get(_metrics_store[d], "metrics", EmptyDict)[name], "status", "unknown") :
        d \in {f \in DOMAIN _metrics_store :
                    /\ ~Stale(f)
                    /\ Has(Get(_metrics_store[f], "metrics", EmptyDict), name)}}

\* C10: for a non-empty store the network, compute and storage rollups are
\* the rollups of the network, cpu and disk readings of the fresh devices
\* alone (unknown when no fresh device has the reading).
C10_RollupsFromFreshOnly ==
    (resp.op = "latest" /\ DOMAIN _metrics_store # {}) =>
        /\ resp.body.system_status.network.status = Rollup(FreshReadings("network"))
        /\ resp.body.system_status.compute.status = Rollup(FreshReadings("cpu"))
        /\ resp.body.system_status.storage.status = Rollup(FreshReadings("disk"))

\* a stale device reports cpu critical, a fresh one cpu healthy, and compute
\* is healthy
C10_Witness ==
    /\ resp.op = "latest"
    /\ \E d \in DOMAIN _metrics_store :
        /\ Stale(d)
        /\ Has(Get(_metrics_store[d], "metrics", EmptyDict), "cpu")
        /\ Get(_metrics_store[d]["metrics"]["cpu"], "status", "unknown") = "critical"
    /\ FreshReadings("cpu") = {"healthy"}
    /\ resp.body.system_status.compute.status = "healthy"

\* the own overall_status of the entry of device d
OwnStatus(d) == Get(_metrics_store[d], "overall_status", "unknown")

\* the fresh devices whose status is s
FreshWith(s) == {d \in DOMAIN _metrics_store : ~Stale(d) /\ OwnStatus(d) = s}

\* C11: in every dashboard response total_devices is the number of entries,
\* online and offline count the fresh and the stale entries and add up to
\* the total, and healthy, warning and critical count the fresh devices of
\* that status, so that their sum is at most online.
C11_SummaryCounts ==
    resp.op = "latest" =>
        LET summary == resp.body.summary
        IN  /\ summary.total_devices = Cardinality(DOMAIN _metrics_store)
            /\ summary.online + summary.offline = summary.total_devices
            /\ summary.online =
                    Cardinality({d \in DOMAIN _metrics_store : ~Stale(d)})
            /\ summary.offline =
                    Cardinality({d \in DOMAIN _metrics_store : Stale(d)})
            /\ summary.healthy = Cardinality(FreshWith("healthy"))
            /\ summary.warning = Cardinality(FreshWith("warning"))
            /\ summary.critical = Cardinality(FreshWith("critical"))
            /\ summary.healthy + summary.warning + summary.critical
                    <= summary.online

\* a stale device that reported healthy is in no health bucket, and a fresh
\* device of an unrecognized status is online but in no bucket
C11_Witness ==
    /\ resp.op = "latest"
    /\ \E d \in DOMAIN _metrics_store : Stale(d) /\ OwnStatus(d) = "healthy"
    /\ \E d \in DOMAIN _metrics_store : ~Stale(d) /\ OwnStatus(d) = "degraded"
    /\ resp.body.summary.online = 2
    /\ resp.body.summary.offline = 1
    /\ resp.body.summary.healthy = 0
    /\ resp.body.summary.critical = 1

\* the six entries of system_status
Subsystems == {"network", "compute", "storage", "cooling", "security", "power"}

\* C13: while no record has succeeded the dashboard gives the no-data
\* response (no devices, all counts 0, every system_status unknown); after
\* a record has succeeded it never does.
C13_NoDataIffNothingRecorded ==
    resp.op = "latest" =>
        IF DOMAIN lastReport = {}
        THEN /\ resp.body.status = "no_data"
             /\ resp.body.devices = <<>>
             /\ \A k \in DOMAIN resp.body.summary : resp.body.summary[k] = 0
             /\ DOMAIN resp.body.summary =
                    {"total_devices", "online", "offline",
                     "healthy", "warning", "critical"}
             /\ DOMAIN resp.body.system_status = Subsystems
             /\ \A k \in Subsystems : resp.body.system_status[k].status = "unknown"
        ELSE /\ resp.body.status = "ok"
             /\ resp.body.devices # <<>>
             /\ resp.body.summary.total_devices >= 1
             /\ resp.body.system_status.cooling.status = "healthy"

\* the dashboard answers an empty store after time has passed
C13_Witness ==
    /\ resp.op = "latest"
    /\ DOMAIN _metrics_store = {}
    /\ clock > 0
    /\ resp.body.status = "no_data"
    /\ resp.body.summary.total_devices = 0

\* C14: a detail request is answered not found exactly when no record for
\* the id ever succeeded; otherwise it gives the stored entry with is_stale
\* and age_seconds added.
C14_NotFoundIffNeverRecorded ==
    resp.op = "get" =>
        /\ resp.code \in {200, 404}
        /\ resp.code = 404 <=> resp.device_id \notin DOMAIN lastReport
        /\ resp.code = 200 =>
            LET entry == _metrics_store[resp.device_id]
            IN  /\ DOMAIN resp.body = (DOMAIN entry) \cup {"is_stale", "age_seconds"}
                /\ \A k \in (DOMAIN entry) \ {"is_stale", "age_seconds"} :
                        resp.body[k] = entry[k]

\* a device that went stale is still found, while an id never recorded is not
C14_Witness ==
    /\ GetOk
    /\ resp.body["is_stale"]
    /\ resp.body["age_seconds"] = 120
    /\ "d2" \notin DOMAIN _metrics_store

\* C19: a query leaves the store as it is, a successful record for d leaves
\* every other entry as it is, and nothing else changes the store.
C19_OnlyRecordMutates ==
    [][ /\ (resp.op = "none" /\ resp'.op \in {"list", "get", "latest"})
            => _metrics_store' = _metrics_store
        /\ (resp.op = "none" /\ resp'.op = "ingest" /\ resp'.code = 200)
            => /\ DOMAIN _metrics_store' =
                    (DOMAIN _metrics_store) \cup {resp'.body.device_id}
               /\ \A e \in (DOMAIN _metrics_store) \ {resp'.body.device_id} :
                    _metrics_store'[e] = _metrics_store[e]
        /\ _metrics_store' # _metrics_store
            => (resp'.op = "ingest" /\ resp'.code = 200) ]_vars

\* a detail was returned with is_stale and age_seconds while the stored
\* entry has neither
C19_Witness ==
    /\ GetOk
    /\ Has(resp.body, "age_seconds")
    /\ ~Has(_metrics_store[resp.device_id], "age_seconds")
    /\ ~Has(_metrics_store[resp.device_id], "is_stale")

\* every entry is on the same side of the freshness window at the clock
\* values a and b
SameFreshness(a, b) ==
    \A d \in DOMAIN _metrics_store :
        (a - ReceivedTime(d) > 60) <=> (b - ReceivedTime(d) > 60)

\* a dashboard is answered and another one was answered before it with no
\* record call between the two
SecondDashboard ==
    /\ resp.op = "none"
    /\ resp'.op = "latest"
    /\ resp'.code = 200
    /\ lastDashboard # NoDashboard

\* C12 as stated: two dashboards with no record between them have the same
\* summary and the same system_status, however much time passed between.
C12_DashboardIdempotent ==
    [][ SecondDashboard =>
            /\ resp'.body.summary = lastDashboard.summary
            /\ resp'.body.system_status = lastDashboard.system_status ]_vars

\* C12, amended: two dashboards with no record between them have the same
\* summary and the same system_status when every entry is on the same side
\* of the freshness window at both calls.
C12_IdempotentWhileFreshnessKept ==
    [][ (SecondDashboard /\ SameFreshness(lastDashboard.at, clock)) =>
            /\ resp'.body.summary = lastDashboard.summary
            /\ resp'.body.system_status = lastDashboard.system_status ]_vars

\* two dashboards of two devices, time passed between them, no record
\* between them, and no device crossed the window
C12_Witness ==
    /\ resp.op = "latest"
    /\ lastDashboard # NoDashboard
    /\ lastDashboard.before >= 0
    /\ lastDashboard.before < lastDashboard.at
    /\ SameFreshness(lastDashboard.before, lastDashboard.at)
    /\ lastDashboard.summary.online >= 1
    /\ lastDashboard.summary.total_devices = 2

\* the rows of a list or dashboard response, by device
RowOf(d) == CHOOSE row \in Range(Rows) : row.device_id = d

\* C15: no entry is ever removed; an entry that gets no further report
\* becomes stale as the clock advances (within the clock values covered),
\* stays stale until a report for its device is recorded, and is all the
\* while answered by the list, the detail and the dashboard with the report
\* it holds.
C15_NeverRemovedAgesIntoStale ==
    /\ [][(DOMAIN _metrics_store) \subseteq (DOMAIN _metrics_store')]_vars
    /\ [][\A d \in DOMAIN _metrics_store :
            (Stale(d) /\ _metrics_store'[d] = _metrics_store[d])
                => clock' - ReceivedTime(d) > 60]_vars
    /\ [](resp.op \in {"list", "latest"} =>
            /\ {row.device_id : row \in Range(Rows)} = DOMAIN _metrics_store
            /\ \A d \in DOMAIN _metrics_store :
                /\ RowOf(d).last_seen = _metrics_store[d]["received_at"]
                /\ RowOf(d).hostname = Get(_metrics_store[d], "hostname", "Unknown")
                /\ Stale(d) => RowOf(d).overall_status = "offline")
    /\ []((resp.op = "get" /\ Has(_metrics_store, resp.device_id)) =>
            /\ resp.code = 200
            /\ \A k \in DOMAIN _metrics_store[resp.device_id] :
                    resp.body[k] = _metrics_store[resp.device_id][k]
            /\ Stale(resp.device_id) => resp.body["is_stale"])
    /\ \A d \in DeviceIds \ {""}, t \in Times :
            (/\ Has(_metrics_store, d)
             /\ ReceivedTime(d) = t
             /\ t + 60 < MaxClock)
            ~> (/\ Has(_metrics_store, d)
                /\ Stale(d) \/ ReceivedTime(d) # t)

\* a device whose entry went stale is still listed, as offline, with the
\* report it holds, next to a device that reported later
C15_Witness ==
    /\ resp.op = "list"
    /\ DOMAIN _metrics_store = {"d1", "d2"}
    /\ Stale("d1")
    /\ ~Stale("d2")
    /\ RowOf("d1").overall_status = "offline"
    /\ RowOf("d1").last_seen = "0Z"
    /\ RowOf("d2").overall_status = "critical"

\* the entry of device d has no received_at, or one that does not parse
Malformed(d) ==
    \/ ~Has(_metrics_store[d], "received_at")
    \/ \A t \in Times : _metrics_store[d]["received_at"] # utcnow_stamp(t)

\* the devices with a well-formed entry inside the freshness window
WellFormedFresh ==
    {d \in DOMAIN _metrics_store : ~Malformed(d) /\ ~Stale(d)}

\* the readings of subsystem name on the well-formed fresh devices
WellFormedReadings(name) ==
    {Get(_metrics_store[d]["metrics"][name], "status", "unknown") :
        d \in {e \in WellFormedFresh :
                /\ Has(_metrics_store[e], "metrics")
                /\ Has(_metrics_store[e]["metrics"], name)}}

\* in every response that is not an error a malformed entry is stale: the
\* list has it stale and offline, the detail has it stale, the dashboard
\* has it offline, counts it as offline only and keeps it out of the rollups
MalformedIsStaleWhereAnswered ==
    /\ resp.op = "list" =>
        /\ resp.code = 200
        /\ \A row \in Range(Rows) :
            Malformed(row.device_id) =>
                row.is_stale /\ row.overall_status = "offline"
    /\ (resp.op = "get" /\ Has(_metrics_store, resp.device_id)) =>
        /\ resp.code = 200
        /\ Malformed(resp.device_id) => resp.body["is_stale"]
    /\ (resp.op = "latest" /\ resp.code = 200 /\ DOMAIN _metrics_store # {}) =>
        /\ \A row \in Range(Rows) :
            Malformed(row.device_id) =>
                ~row.is_online /\ row.overall_status = "offline"
        /\ resp.body.summary.online = Cardinality(WellFormedFresh)
        /\ resp.body.summary.offline =
                Cardinality((DOMAIN _metrics_store) \ WellFormedFresh)
        /\ resp.body.summary.healthy + resp.body.summary.warning
                + resp.body.summary.critical <= resp.body.summary.online
        /\ resp.body.system_status.compute.status = Rollup(WellFormedReadings("cpu"))
        /\ resp.body.system_status.storage.status = Rollup(WellFormedReadings("disk"))

WholeEntries ==
    {stamp_received(payload.obj, now) :
        payload \in {q \in ConcPayloads : ~invalid_payload(q)}, now \in Times}

\* the threads that are inside the with block of a query
Querying == {t \in Threads : threads[t].pc = "locked"}

\* the ids of the entries a query has read so far
SeenIds(seen) == [i \in 1..Len(seen) |-> seen[i].device_id]

\* C16: whatever record calls run next to a query, the query reads the
\* store as it stood at one instant (when it entered the with block): every
\* entry it reads is the entry of that instant, it reads each key of that
\* instant once, the response is built from those entries alone, and every
\* entry is a whole report.
C16_PointInTimeQuery ==
    /\ \A d \in DOMAIN _metrics_store : _metrics_store[d] \in WholeEntries
    /\ \A t \in Querying :
        LET q == threads[t]
        IN  /\ _metrics_store = q.snapshot
            /\ \A i \in 1..Len(q.seen) :
                    q.seen[i].data = q.snapshot[q.seen[i].device_id]
            /\ SeenIds(q.seen) \o q.keys =
                    IF q.op = "get" THEN <<>> ELSE items(q.snapshot)
    /\ (resp.op \in {"list", "latest"} /\ resp.code = 200) =>
        /\ SeenIds(resp.seen) = items(resp.snapshot)
        /\ Len(resp.body.devices) = Len(resp.seen)
        /\ \A i \in 1..Len(resp.seen) :
            LET entry == resp.snapshot[resp.seen[i].device_id]
            IN  /\ resp.seen[i].data = entry
                /\ resp.body.devices[i].device_id = resp.seen[i].device_id
                /\ resp.body.devices[i].last_seen = entry["received_at"]
                /\ resp.op = "latest" =>
                        resp.body.devices[i].metrics = entry["metrics"]
    /\ resp.op = "latest" =>
            resp.body.summary.total_devices = Cardinality(DOMAIN resp.snapshot)
    /\ resp.op = "get" =>
        IF Has(resp.snapshot, resp.device_id)
        THEN /\ resp.code = 200
             /\ \A k \in DOMAIN resp.snapshot[resp.device_id] :
                    resp.body[k] = resp.snapshot[resp.device_id][k]
        ELSE resp.code = 404

\* a dashboard has read one of two entries while a record call with other
\* data for a device of the store waits for the lock
C16_Witness ==
    \E t \in Querying, u \in Threads :
        /\ threads[t].op = "latest"
        /\ threads[t].seen # <<>>
        /\ threads[t].keys # <<>>
        /\ threads[u].pc = "ingest_wait"
        /\ Has(_metrics_store, threads[u].device_id)
        /\ threads[u].data # _metrics_store[threads[u].device_id]

\* the threads whose list or dashboard loop has classified an entry
Classifying == {t \in Querying : threads[t].seen # <<>>}

\* C17: a query that is classifying or aggregating does not hold the lock,
\* and no record call waits for the lock while a query is in that phase.
C17_LockOnlyWhileCopying ==
    /\ \A t \in Classifying : _metrics_lock # t
    /\ \A t \in Classifying, u \in Threads :
            ~(threads[u].pc = "ingest_wait" /\ _metrics_lock = t)

\* a thread is inside the with block of ingest_metrics
Writing == \E t \in Threads : threads[t].pc = "ingest_locked"

\* C18: when no record call is inside its with block, the entry of every
\* device is, as a whole, the data of the record call for that device that
\* took the lock last; and a write changes the entry of its device only.
C18_LastLockHolderWins ==
    /\ [](~Writing =>
            /\ DOMAIN lastAcquired = DOMAIN _metrics_store
            /\ \A d \in DOMAIN lastAcquired :
                    _metrics_store[d] = lastAcquired[d])
    /\ [][\A t \in Threads :
            (threads[t].pc = "ingest_locked" /\ threads'[t].pc = "idle") =>
                /\ _metrics_store'[threads[t].device_id] = threads[t].data
                /\ DOMAIN _metrics_store' =
                        (DOMAIN _metrics_store) \cup {threads[t].device_id}
                /\ \A e \in (DOMAIN _metrics_store) \ {threads[t].device_id} :
                        _metrics_store'[e] = _metrics_store[e]]_vars

\* two record calls for one device ran together, both have completed, and
\* the entry is the data of the one that took the lock last although the
\* other one was stamped later
C18_Witness ==
    /\ resp.op = "ingest"
    /\ resp.code = 200
    /\ resp.raced # NoRace
    /\ resp.raced["overall_status"] # resp.data["overall_status"]
    /\ last_seen_rank(resp.raced["received_at"])
            > last_seen_rank(resp.data["received_at"])
    /\ _metrics_store[resp.data["device_id"]] = resp.data

\* C21: in every dashboard of a non-empty store power is healthy exactly
\* when some device is fresh and unknown otherwise, whatever the subsystem
\* and overall statuses are, and cooling and security are healthy.
C21_PowerFromOnlineOnly ==
    (resp.op = "latest" /\ DOMAIN _metrics_store # {}) =>
        /\ resp.body.system_status.power.status =
                IF \E d \in DOMAIN _metrics_store : ~Stale(d)
                THEN "healthy" ELSE "unknown"
        /\ resp.body.system_status.power.status = "healthy"
                <=> resp.body.summary.online > 0
        /\ resp.body.system_status.cooling.status = "healthy"
        /\ resp.body.system_status.security.status = "healthy"

\* power is healthy with one device fresh and one stale, while the fresh
\* device is critical and so is the compute rollup
C21_Witness ==
    /\ resp.op = "latest"
    /\ resp.body.summary.online = 1
    /\ resp.body.summary.offline = 1
    /\ resp.body.summary.critical = 1
    /\ resp.body.system_status.compute.status = "critical"
    /\ resp.body.system_status.power.status = "healthy"

\* the time a received_at string stands for
StampTime(entry) == fromisoformat(replace_Z(entry["received_at"])).t

\* a record call has just replaced an entry of its device
Overwrote ==
    /\ resp.op = "ingest"
    /\ resp.code = 200
    /\ resp.overwritten # EmptyDict

\* C22 as stated: whenever an entry is overwritten the new received_at is
\* not earlier than the one it replaces, also when record calls overlap.
C22_ReceivedAtNeverDecreases ==
    Overwrote => StampTime(resp.data) >= StampTime(resp.overwritten)

\* C22, amended: the new received_at is not earlier than the one it
\* replaces when no other record call for the device wrote between this
\* call's reading of the clock and its write.
C22_NeverDecreasesUnlessOvertaken ==
    (Overwrote /\ resp.raced = NoRace) =>
        StampTime(resp.data) >= StampTime(resp.overwritten)

\* an entry was replaced by a later one while another record call for the
\* same device, stamped earlier, still waits for the lock
C22_Witness ==
    /\ Overwrote
    /\ resp.raced = NoRace
    /\ StampTime(resp.data) > StampTime(resp.overwritten)
    /\ \E u \in Threads :
        /\ threads[u].pc = "ingest_wait"
        /\ threads[u].device_id = resp.data["device_id"]
        /\ StampTime(threads[u].data) < StampTime(resp.data)

\* the loop thread has been started and has not ended
Looping == client.pc \in CollectPcs \cup {"test", "send", "sleep"}

\* C23: a new cycle starts only from the loop test with running true; the
\* thread ends only at the loop test with running false (or with the
\* process), so no failed send and no exception of collect ends it; while
\* running is true a cycle that ended is followed by a new one; and after
\* stop the thread ends.
C23_LoopRunsUntilStopped ==
    /\ [][(client.pc # "collect" /\ client'.pc = "collect") =>
            (client.pc = "test" /\ client.running)]_vars
    /\ [][(Looping /\ client'.pc = "terminated") =>
            \/ client.pc = "test" /\ ~client.running
            \/ client'.main = "exited"]_vars
    /\ [][(client.pc \in CollectPcs \cup {"send"} /\ client'.main # "exited") =>
            client'.pc \in CollectPcs \cup {"send", "sleep"}]_vars
    /\ (client.pc = "sleep" /\ client.last \in {"send_failed", "collect_raised"})
            ~> (client.pc = "collect" \/ ~client.running)
    /\ (client.pc = "sleep" /\ client.last = "sent")
            ~> (client.pc = "collect" \/ ~client.running)
    /\ (client.main = "stopped") ~> (client.pc = "terminated")

\* the cycle before failed (no connection, or collect raised) and the loop
\* is in the next cycle, about to send a report
C23_Witness ==
    /\ client.running
    /\ client.pc = "send"
    /\ client.last \in {"send_failed", "collect_raised"}
    /\ client.metrics # NoMetrics

\* critical > warning > healthy
Severity(status) ==
    CASE status = "critical" -> 2
      [] status = "warning" -> 1
      [] OTHER -> 0

\* the larger of two numbers
Max(a, b) == IF a >= b THEN a ELSE b

\* C24: in every report collect builds from psutil's readings
\* overall_status is at least as severe as the worst of the cpu, memory and
\* disk statuses of the report.
C24_OverallAtLeastWorstSubsystem ==
    (client.metrics # NoMetrics /\ ~Has(client.metrics, "error")) =>
        Severity(client.metrics.overall_status) >=
            Max(Severity(client.metrics.metrics.cpu.status),
                Max(Severity(client.metrics.metrics.memory.status),
                    Severity(client.metrics.metrics.disk.status)))

=============================================================================
